---- MODULE Spec2Model ----
\* Verification model of the document-processing pipeline:
\*   src/src/processing/parser.py  (DocumentParser)
\*   src/src/processing/utils.py   (EmbeddingPreprocessor)
\* Strings are modelled as sequences of one-character strings.
EXTENDS Integers, Sequences, FiniteSets, TLC

\* ---------------------------------------------------------------- bounds
MaxTextLen == 5       \* longest page text handed to chunk_text
MaxChunkSize == 3     \* largest chunk_size
MaxOverlap == 2       \* largest chunk_overlap
MaxDocs == 2          \* documents found in the input directory
MaxItems == 3         \* pages, embedded images and table candidates the run meets

\* ------------------------------------------------- text alphabet (utils.py)
\* Letters, the blank and the newline.  No hyphen or dash is in the alphabet,
\* so textwrap's break_on_hyphens rule never applies to the modelled texts.
Chars == {"a", "b", " ", "\n"}

whitespace == {" ", "\n"}

RECURSIVE SeqsUpTo(_, _)
SeqsUpTo(S, n) ==
    IF n = 0 THEN {<<>>}
    ELSE LET shorter == SeqsUpTo(S, n - 1)
         IN  shorter \cup {Append(s, c) : s \in {t \in shorter : Len(t) = n - 1}, c \in S}

Texts == SeqsUpTo(Chars, MaxTextLen)

\* ------------------------------------------------ textwrap.wrap (utils.py:40)
\* TextWrapper._munge_whitespace: every whitespace character becomes a blank.
munge_whitespace(t) ==
    [i \in 1..Len(t) |-> IF t[i] \in whitespace THEN " " ELSE t[i]]

\* chunk.strip() == ''
IsBlank(chunk) == \A i \in 1..Len(chunk) : chunk[i] = " "

\* TextWrapper._split: maximal runs of blanks and of non-blanks.
RECURSIVE split_from(_, _, _)
split_from(t, i, acc) ==
    IF i > Len(t) THEN acc
    ELSE IF acc # <<>> /\ ((acc[Len(acc)][1] = " ") <=> (t[i] = " "))
         THEN split_from(t, i + 1,
                  [acc EXCEPT ![Len(acc)] = Append(acc[Len(acc)], t[i])])
         ELSE split_from(t, i + 1, Append(acc, <<t[i]>>))

split(t) == split_from(t, 1, <<>>)

RECURSIVE join(_)
join(parts) == IF parts = <<>> THEN <<>> ELSE parts[1] \o join(Tail(parts))

\* the inner "while chunks" loop of _wrap_chunks: how many chunks fit on the line
RECURSIVE fill(_, _, _, _)
fill(cs, k, cur_len, width) ==
    IF k < Len(cs) /\ cur_len + Len(cs[k + 1]) <= width
    THEN fill(cs, k + 1, cur_len + Len(cs[k + 1]), width)
    ELSE k

\* TextWrapper._wrap_chunks with drop_whitespace and break_long_words (the
\* defaults), no indent, no max_lines.
RECURSIVE wrap_chunks(_, _, _)
wrap_chunks(cs0, lines, width) ==
    IF cs0 = <<>> THEN lines
    ELSE
      LET cs == IF IsBlank(cs0[1]) /\ lines # <<>> THEN Tail(cs0) ELSE cs0
          k == fill(cs, 0, 0, width)
          line1 == SubSeq(cs, 1, k)
          len1 == Len(join(line1))
          rest1 == SubSeq(cs, k + 1, Len(cs))
          long == rest1 # <<>> /\ Len(rest1[1]) > width
          \* _handle_long_word: the word is cut at the space left on the line
          space_left == width - len1
          line2 == IF long THEN Append(line1, SubSeq(rest1[1], 1, space_left))
                   ELSE line1
          rest2 == IF long
                   THEN <<SubSeq(rest1[1], space_left + 1, Len(rest1[1]))>>
                        \o Tail(rest1)
                   ELSE rest1
          line3 == IF line2 # <<>> /\ IsBlank(line2[Len(line2)])
                   THEN SubSeq(line2, 1, Len(line2) - 1) ELSE line2
      IN  wrap_chunks(rest2,
                      IF line3 # <<>> THEN Append(lines, join(line3)) ELSE lines,
                      width)

\* the text wrapped without the whitespace munging
wrap_unmunged(t, width) == wrap_chunks(split(t), <<>>, width)

\* the text wrapped one column wider than asked
wrap_one_wider(t, width) ==
    wrap_chunks(split(munge_whitespace(t)), <<>>, width + 1)

wrap(t, width) == wrap_chunks(split(munge_whitespace(t)), <<>>, width)

\* Python's s[-k:] for k >= 0: s[-0:] is s[0:], the whole string.
NegSlice(s, k) ==
    IF k = 0 \/ k >= Len(s) THEN s ELSE SubSeq(s, Len(s) - k + 1, Len(s))

\* the last k characters of s, none when k = 0
LastChars(s, k) ==
    IF k >= Len(s) THEN s ELSE SubSeq(s, Len(s) - k + 1, Len(s))

\* overlap taken from the previous output segment instead of the previous
\* wrap segment
RECURSIVE cascade(_, _, _)
cascade(cs, overlap, out) ==
    IF Len(out) = Len(cs) THEN out
    ELSE cascade(cs, overlap,
                 Append(out, IF out = <<>> THEN cs[1]
                             ELSE NegSlice(out[Len(out)], overlap)
                                  \o cs[Len(out) + 1]))

overlap_chunks_cascading(cs, overlap) ==
    IF Len(cs) > 1 THEN cascade(cs, overlap, <<>>) ELSE cs

\* EmbeddingPreprocessor.chunk_text, lines 42-52, applied to the wrap result
overlap_chunks(cs, overlap) ==
    IF Len(cs) > 1
    THEN [i \in 1..Len(cs) |->
             IF i = 1 THEN cs[i] ELSE NegSlice(cs[i - 1], overlap) \o cs[i]]
    ELSE cs

chunk_text(t, size, overlap) == overlap_chunks(wrap(t, size), overlap)


\* ======================================================== parser.py
\* DocumentParser.__init__ defaults (parser.py:55-57)
min_image_size == <<100, 100>>
supported_image_formats == {"jpeg", "png", "jpg"}
table_accuracy_threshold == 80

\* A path is the sequence of its components below input_dir; a component is
\* the rank of its name in string order.  pathlib orders paths by their
\* component lists.
Paths == {<<1>>, <<3>>, <<2, 1>>}

RECURSIVE PathLess(_, _)
PathLess(p, q) ==
    IF p = <<>> THEN q # <<>>
    ELSE IF q = <<>> THEN FALSE
    ELSE IF p[1] # q[1] THEN p[1] < q[1]
    ELSE PathLess(Tail(p), Tail(q))

\* what input_dir.glob can return: the files in any order
Enumerations ==
    {e \in SeqsUpTo(Paths, MaxDocs) : \A i, j \in 1..Len(e) : i # j => e[i] # e[j]}

\* sorted(document_paths), line 262
RECURSIVE insert(_, _)
insert(p, s) ==
    IF s = <<>> THEN <<p>>
    ELSE IF PathLess(p, s[1]) THEN <<p>> \o s
    ELSE <<s[1]>> \o insert(p, Tail(s))

RECURSIVE sorted(_)
\* the enumeration order kept as it is
unsorted(s) == s

sorted(s) == IF s = <<>> THEN <<>> ELSE insert(s[Len(s)], sorted(SubSeq(s, 1, Len(s) - 1)))

\* ---------------------------------------------------- the backends' data
\* Embedded images by xref: what doc.extract_image returns.  Xrefs 1 and 2
\* hold identical bytes.
Xrefs == {1, 2, 3, 4, 5}

extract_image(xref) ==
    CASE xref = 1 -> [image |-> 1, colorspace |-> 3, ext |-> "png"]
      [] xref = 2 -> [image |-> 1, colorspace |-> 3, ext |-> "png"]
      [] xref = 3 -> [image |-> 2, colorspace |-> 1, ext |-> "bmp"]
      [] xref = 4 -> [image |-> 3, colorspace |-> 3, ext |-> "jpeg"]
      [] xref = 5 -> [image |-> 4, colorspace |-> 4, ext |-> "png"]

\* Image.open(io.BytesIO(image_bytes)).size
image_size(image_bytes) ==
    CASE image_bytes = 1 -> <<200, 200>>
      [] image_bytes = 2 -> <<120, 300>>
      [] image_bytes = 3 -> <<200, 50>>
      [] image_bytes = 4 -> <<200, 200>>

\* hashlib.md5(image_bytes).hexdigest()
md5(image_bytes) == <<"md5", image_bytes>>

\* accuracy scores the table backend reports
Accuracies == {75, 80, 85}

\* str(e) of the errors camelot.read_pdf raises
Messages == { <<"F","a","t","a","l">>, <<"N","o","n","F","a","t","a","l">>,
              <<"f","a","t","a","l">>, <<"E","O","F">> }

\* sub in s, for strings
Contains(s, sub) ==
    \E i \in 0..(Len(s) - Len(sub)) : SubSeq(s, i + 1, i + Len(sub)) = sub

\* what page.get_text() returns: a text long enough for validate_text, which
\* spans several chunks at the preprocessor's chunk size
PageTexts == {<<"a", "a", "a", "a", " ", "b", "b", "b", "b", " ", "a", "a">>}

\* doc.metadata of the documents the backend opens
DocMetadata == {[title |-> "T", author |-> "A"]}

\* a fitz.Document that was never opened
Unopened == [state |-> "unopened", metadata |-> <<>>, page_count |-> 0]

None == <<>>

VARIABLES
    \* EmbeddingPreprocessor.chunk_text
    text, chunk_size, chunk_overlap, chunks, overlapped_chunks, cpc,
    \* DocumentParser.process_all_documents
    all_files, document_paths, doc_num, processed_documents, pc,
    \* process_document
    handle, pages, page_num,
    \* process_page
    page_text, page_images, img_idx, images, seen_hashes, image_faults,
    \* _extract_tables
    tables, csv_failed, processed_tables, camelot_calls,
    \* the output directory, and the paths written while already there
    files, rewritten,
    \* prepare_for_text_embedding and prepare_for_image_processing
    text_chunks, image_data,
    \* how many pages, images and table candidates the run has met (MaxItems)
    n_items

chunk_vars == <<text, chunk_size, chunk_overlap, chunks, overlapped_chunks, cpc>>

loop_vars == <<all_files, document_paths, doc_num, processed_documents>>

driver_vars == <<loop_vars, pc>>

doc_vars == <<handle, pages, page_num>>

page_vars == <<page_text, page_images, img_idx, images, seen_hashes, image_faults>>

table_vars == <<tables, csv_failed, processed_tables, camelot_calls>>

meter_vars == <<n_items>>

prep_vars == <<text_chunks, image_data>>

parser_vars == <<driver_vars, doc_vars, page_vars, table_vars, files, rewritten,
                 meter_vars, prep_vars>>

vars == <<chunk_vars, parser_vars>>

\* ------------------------------------------------------ artifact names
\* an image name without its index: one name for the images of a page
image_path_per_page(d, p, i, fmt) == <<"images", "doc", d, "page", p, "img", fmt>>

\* f"doc_{doc_num}_page_{page_num}_img_{img_idx}.{image_format}", line 103
image_path(d, p, i, fmt) == <<"images", "doc", d, "page", p, "img", i, fmt>>

\* f"doc_{doc_num}_page_{page_num}_table_{idx}.csv", lines 136 and 165
table_path(d, p, i) == <<"tables", "doc", d, "page", p, "table", i, "csv">>

\* ------------------------------------------------------ _process_image
\* lines 99-101
image_format(base_image) ==
    IF base_image.ext \in supported_image_formats THEN base_image.ext ELSE "png"

\* lines 94-96: the image is too small or its colorspace is not gray or RGB
rejected(image_bytes, base_image) ==
    \/ image_size(image_bytes)[1] < min_image_size[1]
    \/ image_size(image_bytes)[2] < min_image_size[2]
    \/ base_image.colorspace \notin {1, 3}


\* lines 90-117.  fault is what the image library does on this call: "none",
\* "open" (Image.open raises) or "save" (image.save raises).  fs is the set
\* of files before the call.  The result is the returned ImageContent (None
\* or one record) and the files after the call.
_process_image(image_bytes, page, idx, base_image, d, fault, fs) ==
    LET fmt == image_format(base_image)
        path == image_path(d, page, idx, fmt)
    IN  IF fault = "open" THEN [image |-> None, files |-> fs]
        ELSE IF rejected(image_bytes, base_image) THEN [image |-> None, files |-> fs]
        ELSE IF fault = "save" THEN [image |-> None, files |-> fs]
        ELSE [image |-> <<[path |-> path, page_number |-> page, index |-> idx,
                           hash |-> md5(image_bytes),
                           size |-> image_size(image_bytes), format |-> fmt]>>,
              files |-> fs \cup {path}]

\* no duplicate filter
keep_image_always(processed_img, seen) == TRUE

\* process_page lines 203-205: the page-scoped duplicate filter
keep_image(processed_img, seen) == processed_img.hash \notin seen

\* the gate with >= in place of >
accepted_at_threshold(table) == table.accuracy >= table_accuracy_threshold

\* ------------------------------------------------------ _extract_tables
\* line 134 / 163: the accuracy gate
accepted(table) == table.accuracy > table_accuracy_threshold

\* the record numbered from 1
table_record_one_based(table, d, p, idx) ==
    [path |-> table_path(d, p, idx), page |-> p, index |-> idx + 1,
     accuracy |-> table.accuracy]

\* lines 138-143 / 167-172
table_record(table, d, p, idx) ==
    [path |-> table_path(d, p, idx), page |-> p, index |-> idx,
     accuracy |-> table.accuracy]

\* The loop of lines 133-146 / 162-175 from table idx on; failed holds the
\* indexes whose to_csv raises.
RECURSIVE process_tables(_, _, _, _, _)
process_tables(ts, idx, d, p, failed) ==
    IF idx >= Len(ts) THEN <<>>
    ELSE (IF accepted(ts[idx + 1]) /\ idx \notin failed
          THEN <<table_record(ts[idx + 1], d, p, idx)>> ELSE <<>>)
         \o process_tables(ts, idx + 1, d, p, failed)

\* the files table.to_csv wrote in that loop
written_tables(ts, d, p, failed) ==
    {table_path(d, p, idx) : idx \in {i \in 0..(Len(ts) - 1) :
                                        accepted(ts[i + 1]) /\ i \notin failed}}

\* the retry taken on every error
is_fatal_any(msg) == TRUE

\* "Fatal" in str(e), line 151
is_fatal(msg) == Contains(msg, <<"F", "a", "t", "a", "l">>)

\* what camelot.read_pdf can return for a page: up to n candidate tables
Candidates(n) == SeqsUpTo([accuracy : Accuracies], n)

\* the candidates whose to_csv is called
Gated(ts) == {i \in 0..(Len(ts) - 1) : accepted(ts[i + 1])}

\* ------------------------------------------------------ process_document
get(m, key, default) == IF key \in DOMAIN m THEN m[key] ELSE default

\* the ordinal counted from 0
metadata_zero_based(m, n, d) ==
    [title |-> get(m, "title", ""), author |-> get(m, "author", ""),
     creation_date |-> get(m, "creationDate", ""),
     page_count |-> n, document_number |-> d - 1]

\* lines 233-239
metadata_of(m, n, d) ==
    [title |-> get(m, "title", ""), author |-> get(m, "author", ""),
     creation_date |-> get(m, "creationDate", ""),
     page_count |-> n, document_number |-> d]

\* lines 250-255
error_document(path, d, e) ==
    [file_path |-> path, pages |-> <<>>,
     metadata |-> [document_number |-> d], error |-> <<e>>]

\* lines 242-246
document(path, ps, m) ==
    [file_path |-> path, pages |-> ps, metadata |-> m, error |-> None]

\* ======================================================== utils.py
\* str.strip(): leading and trailing whitespace removed
RECURSIVE lstrip(_)
lstrip(t) == IF t # <<>> /\ Head(t) \in whitespace THEN lstrip(Tail(t)) ELSE t

RECURSIVE rstrip(_)
rstrip(t) ==
    IF t # <<>> /\ t[Len(t)] \in whitespace
    THEN rstrip(SubSeq(t, 1, Len(t) - 1)) ELSE t

strip(t) == rstrip(lstrip(t))

\* ContentValidator.validate_text, lines 10-14
validate_text(t) == ~(t = <<>> \/ Len(strip(t)) < 10)

\* ContentValidator.validate_image, lines 17-20
validate_image(image) == TRUE

\* f"doc_{doc_num}_page_{page.page_number}_chunk_{chunk_idx}.txt", line 81
text_path(d, p, i) == <<"text", "doc", d, "page", p, "chunk", i, "txt">>

\* the documents in the order they were given
unsorted_docs(docs) == docs

\* sorted(processed_docs, key=lambda x: x.metadata.get("document_number", 0)),
\* lines 58 and 93: stable, so d goes after the documents of the same number
RECURSIVE insert_doc(_, _)
insert_doc(d, s) ==
    IF s = <<>> THEN <<d>>
    ELSE IF s[Len(s)].metadata.document_number <= d.metadata.document_number
         THEN Append(s, d)
         ELSE Append(insert_doc(d, SubSeq(s, 1, Len(s) - 1)), s[Len(s)])

RECURSIVE sorted_by_document_number(_)
sorted_by_document_number(docs) ==
    IF docs = <<>> THEN <<>>
    ELSE insert_doc(docs[Len(docs)],
                    sorted_by_document_number(SubSeq(docs, 1, Len(docs) - 1)))

\* the concatenation of a sequence of sequences
RECURSIVE concat(_)
concat(ss) == IF ss = <<>> THEN <<>> ELSE Head(ss) \o concat(Tail(ss))

\* lines 72-85: the chunk_data of chunk i of a page; out is self.output_dir
\* being set, which adds the file_path of the chunk file
chunk_data(doc, page, cs, i, out) ==
    LET data == [text |-> cs[i + 1], page_number |-> page.page_number,
                 chunk_index |-> i, document_path |-> doc.file_path,
                 metadata |-> doc.metadata]
    IN  IF out
        THEN data @@ ("file_path" :> text_path(doc.metadata.document_number,
                                               page.page_number, i))
        ELSE data

\* lines 66-85: the chunks of one page
page_chunks(doc, page, size, overlap, out) ==
    IF ~validate_text(page.text) THEN <<>>
    ELSE LET cs == chunk_text(page.text, size, overlap)
         IN  [i \in 1..Len(cs) |-> chunk_data(doc, page, cs, i - 1, out)]

\* lines 60-85: the chunks of one document
doc_chunks(doc, size, overlap, out) ==
    IF doc.error # None THEN <<>>
    ELSE concat([k \in 1..Len(doc.pages) |->
                    page_chunks(doc, doc.pages[k], size, overlap, out)])

\* prepare_for_text_embedding, lines 54-87
prepare_for_text_embedding(docs, size, overlap, out) ==
    LET ds == sorted_by_document_number(docs)
    IN  concat([k \in 1..Len(ds) |-> doc_chunks(ds[k], size, overlap, out)])

\* lines 101-110
img_data(doc, page, image) ==
    [image_path |-> image.path, page_number |-> page.page_number,
     image_index |-> image.index, document_path |-> doc.file_path,
     metadata |-> doc.metadata, image_size |-> image.size,
     format |-> image.format]

\* lines 96-111: the image_data of one page, and of one document
page_images_data(doc, page) ==
    LET kept == SelectSeq(page.images, validate_image)
    IN  [i \in 1..Len(kept) |-> img_data(doc, page, kept[i])]

doc_images_data(doc) ==
    IF doc.error # None THEN <<>>
    ELSE concat([k \in 1..Len(doc.pages) |-> page_images_data(doc, doc.pages[k])])

\* prepare_for_image_processing, lines 89-115
prepare_for_image_processing(docs) ==
    LET ds == sorted_by_document_number(docs)
    IN  concat([k \in 1..Len(ds) |-> doc_images_data(ds[k])])

\* ================================================== the parser as a machine
\* The image loop's locals are dead once the loop is left (line 210).
ImageLoopLeft ==
    /\ page_images' = <<>>
    /\ img_idx' = 0
    /\ seen_hashes' = {}
    /\ image_faults' = <<>>

\* the locals of process_page and _extract_tables before a page is processed
PageLocalsFresh ==
    /\ page_text' = <<>>
    /\ page_images' = <<>>
    /\ img_idx' = 0
    /\ images' = <<>>
    /\ seen_hashes' = {}
    /\ image_faults' = <<>>
    /\ tables' = <<>>
    /\ csv_failed' = {}
    /\ processed_tables' = <<>>
    /\ camelot_calls' = <<>>

DocLocalsFresh ==
    /\ pages' = <<>>
    /\ page_num' = 0

ParserIdle ==
    /\ document_paths = <<>>
    /\ doc_num = 0
    /\ processed_documents = <<>>
    /\ handle = [d \in 1..Len(all_files) |-> Unopened]
    /\ pages = <<>>
    /\ page_num = 0
    /\ page_text = <<>>
    /\ page_images = <<>>
    /\ img_idx = 0
    /\ images = <<>>
    /\ seen_hashes = {}
    /\ image_faults = <<>>
    /\ tables = <<>>
    /\ csv_failed = {}
    /\ processed_tables = <<>>
    /\ camelot_calls = <<>>
    /\ files = {}
    /\ rewritten = {}
    /\ n_items = 0
    /\ text_chunks = <<>>
    /\ image_data = <<>>

\* EmbeddingPreprocessor.__init__, lines 31-32, with a chunk_size that cuts a
\* page text into several chunks; chunk_text is not running
ChunkIdle ==
    /\ text = <<>>
    /\ chunk_size = 5
    /\ chunk_overlap = 2
    /\ chunks = <<>>
    /\ overlapped_chunks = <<>>
    /\ cpc = "idle"

\* get_documents_paths (lines 74-80) has returned the files in some order
Init ==
    /\ all_files \in Enumerations
    /\ pc = "start"
    /\ ParserIdle
    /\ ChunkIdle

\* process_all_documents, lines 259-264: sort, then enumerate from 1
SortPaths ==
    /\ pc = "start"
    /\ document_paths' = sorted(all_files)
    /\ doc_num' = 1
    /\ pc' = "document"
    /\ UNCHANGED <<all_files, processed_documents, doc_vars, page_vars,
                   table_vars, files, rewritten, meter_vars>>
    /\ UNCHANGED <<chunk_vars, prep_vars>>

\* the except branch returning the pages collected so far
FailDocumentKeepingPages(e) ==
    /\ processed_documents' =
           Append(processed_documents,
                  [error_document(document_paths[doc_num], doc_num, e)
                       EXCEPT !.pages = pages])
    /\ doc_num' = doc_num + 1
    /\ pc' = "document"
    /\ DocLocalsFresh
    /\ PageLocalsFresh
    /\ UNCHANGED <<all_files, document_paths, handle, files, rewritten>>

\* process_document letting the exception out: the driver's except branch
\* (lines 269-270) logs it and goes on, and the document has no record
FailDocumentRaising(e) ==
    /\ doc_num' = doc_num + 1
    /\ pc' = "document"
    /\ DocLocalsFresh
    /\ PageLocalsFresh
    /\ UNCHANGED <<all_files, document_paths, processed_documents, handle,
                   files, rewritten>>

\* process_document's except branch (lines 248-255) and the driver's append
\* (line 268) and next iteration: the handle is left as it is
FailDocument(e) ==
    /\ processed_documents' =
           Append(processed_documents,
                  error_document(document_paths[doc_num], doc_num, e))
    /\ doc_num' = doc_num + 1
    /\ pc' = "document"
    /\ DocLocalsFresh
    /\ PageLocalsFresh
    /\ UNCHANGED <<all_files, document_paths, handle, files, rewritten>>

\* line 226: fitz.open raises
OpenFails ==
    /\ pc = "document"
    /\ doc_num <= Len(document_paths)
    /\ FailDocument("cannot open")
    /\ UNCHANGED meter_vars
    /\ UNCHANGED <<chunk_vars, prep_vars>>

\* lines 226-229: fitz.open returns a document of n pages
OpenDocument ==
    /\ pc = "document"
    /\ doc_num <= Len(document_paths)
    /\ \E n \in 0..(MaxItems - n_items), m \in DocMetadata :
          /\ handle' = [handle EXCEPT ![doc_num] =
                           [state |-> "open", metadata |-> m, page_count |-> n]]
          /\ n_items' = n_items + n
    /\ pages' = <<>>
    /\ page_num' = 0
    /\ pc' = "page"
    /\ UNCHANGED <<loop_vars,
                   page_vars, table_vars, files, rewritten>>
    /\ UNCHANGED <<chunk_vars, prep_vars>>

\* process_page line 187: page.get_text() returns
GetText ==
    /\ pc = "page"
    /\ page_num < handle[doc_num].page_count
    /\ \E t \in PageTexts : page_text' = t
    /\ images' = <<>>
    /\ seen_hashes' = {}
    /\ pc' = "get_images"
    /\ UNCHANGED <<loop_vars,
                   doc_vars, page_images, img_idx, image_faults, table_vars,
                   files, rewritten, meter_vars>>
    /\ UNCHANGED <<chunk_vars, prep_vars>>

\* a page whose text cannot be read is left out and the loop goes on
GetTextFailsSkipping ==
    /\ pc = "page"
    /\ page_num < handle[doc_num].page_count
    /\ page_num' = page_num + 1
    /\ UNCHANGED <<driver_vars, handle, pages, page_vars, table_vars, files,
                   rewritten, meter_vars>>
    /\ UNCHANGED <<chunk_vars, prep_vars>>

\* line 187: page.get_text() raises; lines 219-221 re-raise
GetTextFails ==
    /\ pc = "page"
    /\ page_num < handle[doc_num].page_count
    /\ FailDocument("get_text failed")
    /\ UNCHANGED meter_vars
    /\ UNCHANGED <<chunk_vars, prep_vars>>

\* line 191: page.get_images() returns the page's xrefs
GetImages ==
    /\ pc = "get_images"
    /\ \E xs \in SeqsUpTo(Xrefs, MaxItems - n_items) :
          /\ \A i, j \in 1..Len(xs) : i # j => xs[i] # xs[j]
          /\ page_images' = xs
          /\ n_items' = n_items + Len(xs)
    /\ img_idx' = 0
    /\ pc' = "images"
    /\ UNCHANGED <<loop_vars,
                   doc_vars, page_text, images, seen_hashes, image_faults,
                   table_vars, files, rewritten>>
    /\ UNCHANGED <<chunk_vars, prep_vars>>

\* line 191: page.get_images() raises, outside the per-image try
GetImagesFails ==
    /\ pc = "get_images"
    /\ FailDocument("get_images failed")
    /\ UNCHANGED meter_vars
    /\ UNCHANGED <<chunk_vars, prep_vars>>

\* the image loop without its try (lines 192-208): the fault of one image
\* leaves process_page
ProcessImageUncaught ==
    /\ pc = "images"
    /\ img_idx < Len(page_images)
    /\ FailDocument("image failed")
    /\ UNCHANGED meter_vars
    /\ UNCHANGED <<chunk_vars, prep_vars>>

\* lines 191-208: one iteration of the image loop.  fault "extract" is
\* doc.extract_image raising; the others are passed to _process_image.
ProcessImage ==
    /\ pc = "images"
    /\ img_idx < Len(page_images)
    /\ \E fault \in {"none", "extract", "open", "save"} :
          LET base_image == extract_image(page_images[img_idx + 1])
              r == _process_image(base_image.image, page_num, img_idx,
                                  base_image, doc_num, fault, files)
              keep == /\ fault # "extract"
                      /\ r.image # None
                      /\ keep_image(r.image[1], seen_hashes)
          IN  /\ images' = IF keep THEN Append(images, r.image[1]) ELSE images
              /\ seen_hashes' = IF keep THEN seen_hashes \cup {r.image[1].hash}
                                ELSE seen_hashes
              /\ files' = IF fault = "extract" THEN files ELSE r.files
              /\ rewritten' = IF fault # "extract" /\ r.image # None
                                 /\ r.image[1].path \in files
                              THEN rewritten \cup {r.image[1].path}
                              ELSE rewritten
              /\ image_faults' = Append(image_faults, fault)
    /\ img_idx' = img_idx + 1
    /\ UNCHANGED <<driver_vars, doc_vars, page_text, page_images, table_vars,
                   meter_vars>>
    /\ UNCHANGED <<chunk_vars, prep_vars>>

\* _extract_tables lines 121-148: the stream call returns ts and the accepted
\* tables are saved and recorded
ExtractStream ==
    /\ pc = "images"
    /\ img_idx = Len(page_images)
    /\ \E ts \in Candidates(MaxItems - n_items) :
       \E failed \in SUBSET Gated(ts) :
          /\ tables' = ts
          /\ csv_failed' = failed
          /\ processed_tables' = process_tables(ts, 0, doc_num, page_num, failed)
          /\ files' = files \cup written_tables(ts, doc_num, page_num, failed)
          /\ rewritten' = rewritten \cup
                 (files \cap written_tables(ts, doc_num, page_num, failed))
          /\ n_items' = n_items + Len(ts)
    /\ camelot_calls' = <<[flavor |-> "stream", error |-> None]>>
    /\ pc' = "page_return"
    /\ ImageLoopLeft
    /\ UNCHANGED <<loop_vars, doc_vars, page_text, images>>
    /\ UNCHANGED <<chunk_vars, prep_vars>>

\* lines 122-128 raise; lines 150-152 and 180-182 choose between the retry
\* and the empty result
StreamFails ==
    /\ pc = "images"
    /\ img_idx = Len(page_images)
    /\ \E msg \in Messages :
          /\ camelot_calls' = <<[flavor |-> "stream", error |-> <<msg>>]>>
          /\ pc' = IF is_fatal(msg) THEN "lattice" ELSE "page_return"
    /\ processed_tables' = <<>>
    /\ ImageLoopLeft
    /\ UNCHANGED <<loop_vars,
                   doc_vars, page_text, images, tables, csv_failed, files, rewritten, meter_vars>>
    /\ UNCHANGED <<chunk_vars, prep_vars>>

\* lines 153-176: the lattice call returns ts
ExtractLattice ==
    /\ pc = "lattice"
    /\ \E ts \in Candidates(MaxItems - n_items) :
       \E failed \in SUBSET Gated(ts) :
          /\ tables' = ts
          /\ csv_failed' = failed
          /\ processed_tables' = process_tables(ts, 0, doc_num, page_num, failed)
          /\ files' = files \cup written_tables(ts, doc_num, page_num, failed)
          /\ rewritten' = rewritten \cup
                 (files \cap written_tables(ts, doc_num, page_num, failed))
          /\ n_items' = n_items + Len(ts)
    /\ camelot_calls' = Append(camelot_calls, [flavor |-> "lattice", error |-> None])
    /\ pc' = "page_return"
    /\ UNCHANGED <<loop_vars, doc_vars, page_vars>>
    /\ UNCHANGED <<chunk_vars, prep_vars>>

\* the retry without its bare except (lines 177-179): the error of the
\* lattice call leaves _extract_tables and process_page
LatticeFailsRaising ==
    /\ pc = "lattice"
    /\ FailDocument("tables failed")
    /\ UNCHANGED meter_vars
    /\ UNCHANGED <<chunk_vars, prep_vars>>

\* lines 154-159 raise; lines 177-179
LatticeFails ==
    /\ pc = "lattice"
    /\ \E msg \in Messages :
          camelot_calls' = Append(camelot_calls,
                                  [flavor |-> "lattice", error |-> <<msg>>])
    /\ processed_tables' = <<>>
    /\ pc' = "page_return"
    /\ UNCHANGED <<loop_vars, doc_vars, page_vars, tables, csv_failed, files, rewritten,
                   meter_vars>>
    /\ UNCHANGED <<chunk_vars, prep_vars>>

\* process_page lines 210-217 and process_document lines 230-231
PageReturn ==
    /\ pc = "page_return"
    /\ pages' = Append(pages, [text |-> page_text, tables |-> processed_tables,
                               images |-> images, page_number |-> page_num])
    /\ page_num' = page_num + 1
    /\ pc' = "page"
    /\ PageLocalsFresh
    /\ UNCHANGED <<loop_vars, handle, files, rewritten, meter_vars>>
    /\ UNCHANGED <<chunk_vars, prep_vars>>

\* process_document lines 233-246 and the driver's append (line 268)
ReturnDocument ==
    /\ pc = "page"
    /\ page_num = handle[doc_num].page_count
    /\ handle' = [handle EXCEPT ![doc_num].state = "closed"]
    /\ processed_documents' =
           Append(processed_documents,
                  document(document_paths[doc_num], pages,
                           metadata_of(handle[doc_num].metadata,
                                       handle[doc_num].page_count, doc_num)))
    /\ doc_num' = doc_num + 1
    /\ pc' = "document"
    /\ DocLocalsFresh
    /\ PageLocalsFresh
    /\ UNCHANGED <<all_files, document_paths, files, rewritten, meter_vars>>
    /\ UNCHANGED <<chunk_vars, prep_vars>>

\* lines 233-239 raise (doc.metadata is unusable)
MetadataFails ==
    /\ pc = "page"
    /\ page_num = handle[doc_num].page_count
    /\ FailDocument("metadata failed")
    /\ UNCHANGED meter_vars
    /\ UNCHANGED <<chunk_vars, prep_vars>>

\* line 272
ReturnAll ==
    /\ pc = "document"
    /\ doc_num > Len(document_paths)
    /\ pc' = "done"
    /\ UNCHANGED <<loop_vars,
                   doc_vars, page_vars, table_vars, files, rewritten, meter_vars>>
    /\ UNCHANGED <<chunk_vars, prep_vars>>

\* test.py line 65: prepare_for_text_embedding(processed_docs), with or
\* without an output_dir; chunk_file.write_text (line 82) writes the files
PrepareText ==
    /\ pc = "done"
    /\ \E out \in BOOLEAN :
       \E cs \in {prepare_for_text_embedding(processed_documents, chunk_size,
                                             chunk_overlap, out)} :
       \E written \in {IF out THEN [i \in 1..Len(cs) |-> cs[i].file_path]
                       ELSE <<>>} :
          /\ text_chunks' = cs
          /\ files' = files \cup {written[i] : i \in 1..Len(written)}
          /\ rewritten' = rewritten \cup
                 {written[i] : i \in {j \in 1..Len(written) :
                      \/ written[j] \in files
                      \/ \E h \in 1..(j - 1) : written[h] = written[j]}}
    /\ pc' = "text_prepared"
    /\ UNCHANGED <<loop_vars, doc_vars, page_vars, table_vars, meter_vars,
                   image_data>>
    /\ UNCHANGED chunk_vars

\* test.py line 75: prepare_for_image_processing(processed_docs)
PrepareImages ==
    /\ pc = "text_prepared"
    /\ image_data' = prepare_for_image_processing(processed_documents)
    /\ pc' = "finished"
    /\ UNCHANGED <<loop_vars, doc_vars, page_vars, table_vars, files, rewritten,
                   meter_vars, text_chunks>>
    /\ UNCHANGED chunk_vars

Next ==
    \/ SortPaths
    \/ OpenFails
    \/ OpenDocument
    \/ GetText
    \/ GetTextFails
    \/ GetImages
    \/ GetImagesFails
    \/ ProcessImage
    \/ ExtractStream
    \/ StreamFails
    \/ ExtractLattice
    \/ LatticeFails
    \/ PageReturn
    \/ ReturnDocument
    \/ MetadataFails
    \/ ReturnAll
    \/ PrepareText
    \/ PrepareImages

Spec == Init /\ [][Next]_vars

\* ------------------------------------------------ chunk_text as a machine
InitChunk ==
    /\ all_files = <<>>
    /\ pc = "idle"
    /\ ParserIdle
    /\ text \in Texts
    /\ chunk_size \in 1..MaxChunkSize
    /\ chunk_overlap \in 0..MaxOverlap
    /\ chunks = <<>>
    /\ overlapped_chunks = <<>>
    /\ cpc = "call"

\* line 40
Wrap ==
    /\ cpc = "call"
    /\ chunks' = wrap(text, chunk_size)
    /\ cpc' = "wrapped"
    /\ UNCHANGED <<text, chunk_size, chunk_overlap, overlapped_chunks>>
    /\ UNCHANGED parser_vars

\* lines 42-52
Overlap ==
    /\ cpc = "wrapped"
    /\ overlapped_chunks' = overlap_chunks(chunks, chunk_overlap)
    /\ cpc' = "returned"
    /\ UNCHANGED <<text, chunk_size, chunk_overlap, chunks>>
    /\ UNCHANGED parser_vars

NextChunk == Wrap \/ Overlap

SpecChunk == InitChunk /\ [][NextChunk]_vars

\* --------------------------------------- the preprocessor on any list
\* The prepare_* methods take any list of DocumentContent.  The lists drawn
\* here hold documents of distinct ordinals, in any order: error documents,
\* and documents of up to two pages whose page_number is their position.
PrepImage(d, p, i) ==
    [path |-> image_path(d, p, i, "png"), page_number |-> p, index |-> i,
     hash |-> md5(i + 1), size |-> image_size(i + 1), format |-> "png"]

PrepPage(d, p, kind) ==
    CASE kind = "text" ->
             [text |-> CHOOSE t \in PageTexts : TRUE, tables |-> <<>>,
              images |-> <<>>, page_number |-> p]
      [] kind = "both" ->
             [text |-> CHOOSE t \in PageTexts : TRUE, tables |-> <<>>,
              images |-> <<PrepImage(d, p, 0), PrepImage(d, p, 2)>>,
              page_number |-> p]
      [] kind = "short" ->
             [text |-> <<"a", " ", "b">>, tables |-> <<>>,
              images |-> <<PrepImage(d, p, 1)>>, page_number |-> p]

PrepDocs(d) ==
    {error_document(<<d>>, d, "cannot open")} \cup
    {document(<<d>>, [i \in 1..Len(ks) |-> PrepPage(d, i - 1, ks[i])],
              metadata_of(CHOOSE m \in DocMetadata : TRUE, Len(ks), d)) :
        ks \in SeqsUpTo({"text", "both", "short"}, 2)}

PrepLists ==
    {ds \in UNION {[1..n -> UNION {PrepDocs(d) : d \in 1..MaxDocs}] :
                        n \in 0..MaxDocs} :
        \A i, j \in 1..Len(ds) :
            i # j => ds[i].metadata.document_number
                         # ds[j].metadata.document_number}

InitPrep ==
    /\ all_files = <<>>
    /\ document_paths = <<>>
    /\ doc_num = 0
    /\ processed_documents \in PrepLists
    /\ pc = "done"
    /\ handle = <<>>
    /\ pages = <<>>
    /\ page_num = 0
    /\ page_text = <<>>
    /\ page_images = <<>>
    /\ img_idx = 0
    /\ images = <<>>
    /\ seen_hashes = {}
    /\ image_faults = <<>>
    /\ tables = <<>>
    /\ csv_failed = {}
    /\ processed_tables = <<>>
    /\ camelot_calls = <<>>
    /\ files = {}
    /\ rewritten = {}
    /\ n_items = 0
    /\ text_chunks = <<>>
    /\ image_data = <<>>
    /\ text = <<>>
    /\ \E config \in {<<5, 2>>, <<512, 50>>} :
          /\ chunk_size = config[1]
          /\ chunk_overlap = config[2]
    /\ chunks = <<>>
    /\ overlapped_chunks = <<>>
    /\ cpc = "idle"

NextPrep == PrepareText \/ PrepareImages

SpecPrep == InitPrep /\ [][NextPrep]_vars

\* ================================================================ claims
Range(s) == {s[i] : i \in 1..Len(s)}

\* every PageContent built so far: of the document in progress and of the
\* documents returned
PageRecords ==
    Range(pages) \cup
    UNION {Range(processed_documents[k].pages) : k \in 1..Len(processed_documents)}

FullKeys == {"title", "author", "creation_date", "page_count", "document_number"}

\* C1: a DocumentContent whose error is set has no pages, and its metadata
\* holds no key but document_number, whatever failed in the run.
C1_ErrorRecordIsBare ==
    \A k \in 1..Len(processed_documents) :
        LET d == processed_documents[k]
        IN  d.error # None =>
                /\ d.pages = <<>>
                /\ DOMAIN d.metadata = {"document_number"}

\* a document whose first page wrote a file and whose second page failed
C1_Witness ==
    /\ Len(processed_documents) = 1
    /\ processed_documents[1].error = <<"get_text failed">>
    /\ files # {}

\* C2: every table record has an accuracy strictly above the threshold, after
\* the stream call and after the lattice call alike, and no candidate at or
\* below the threshold has a file under tables/.
C2_AcceptedAboveThreshold ==
    /\ \A r \in Range(processed_tables) \cup UNION {Range(p.tables) : p \in PageRecords} :
           r.accuracy > table_accuracy_threshold
    /\ \A i \in 1..Len(tables) :
           tables[i].accuracy <= table_accuracy_threshold
               => table_path(doc_num, page_num, i - 1) \notin files

\* the lattice call returned a candidate at the threshold and one above it
C2_Witness ==
    /\ pc = "page_return"
    /\ Len(camelot_calls) = 2
    /\ \E i \in 1..Len(tables) : tables[i].accuracy = table_accuracy_threshold
    /\ processed_tables # <<>>

\* the fatal pattern: the message has the substring "Fatal"
FatalPattern(msg) ==
    \E i \in 1..(Len(msg) - 4) :
        /\ msg[i] = "F" /\ msg[i + 1] = "a" /\ msg[i + 2] = "t"
        /\ msg[i + 3] = "a" /\ msg[i + 4] = "l"

\* the indexes of the candidates that pass the gate and whose save succeeded
Saved == {i \in 0..(Len(tables) - 1) :
             tables[i + 1].accuracy > table_accuracy_threshold /\ i \notin csv_failed}

\* C3: for every page the stream call comes first and once, the lattice call
\* at most once and exactly when the stream call raised with a message that
\* matches the fatal pattern; when the lattice call returns, its gated and
\* saved tables are the result (one table of accuracy 85 gives one record
\* and one file).
C3_FallbackPolicy ==
    /\ Len(camelot_calls) <= 2
    /\ camelot_calls # <<>> => camelot_calls[1].flavor = "stream"
    /\ Len(camelot_calls) = 2 => camelot_calls[2].flavor = "lattice"
    /\ pc = "lattice" => Len(camelot_calls) = 1
    /\ pc \in {"lattice", "page_return"} =>
          /\ camelot_calls # <<>>
          /\ (pc = "lattice" \/ Len(camelot_calls) = 2)
                <=> (/\ camelot_calls[1].error # None
                     /\ FatalPattern(camelot_calls[1].error[1]))
    /\ (pc = "page_return" /\ Len(camelot_calls) = 2
            /\ camelot_calls[2].error = None) =>
          /\ {r.index : r \in Range(processed_tables)} = Saved
          /\ Len(processed_tables) = Cardinality(Saved)
          /\ \A i \in Saved : table_path(doc_num, page_num, i) \in files
          /\ (tables = <<[accuracy |-> 85]>> /\ csv_failed = {}) =>
                /\ Len(processed_tables) = 1
                /\ processed_tables[1].accuracy = 85

\* stream raised "Fatal", lattice returned one table of accuracy 85
C3_Witness ==
    /\ pc = "page_return"
    /\ Len(camelot_calls) = 2
    /\ camelot_calls[1].error = <<(<<"F", "a", "t", "a", "l">>)>>
    /\ camelot_calls[2].error = None
    /\ tables = <<[accuracy |-> 85]>>
    /\ csv_failed = {}
    /\ Len(processed_tables) = 1
    /\ table_path(doc_num, page_num, 0) \in files

UniqueHashes(imgs) ==
    \A a, b \in 1..Len(imgs) : a # b => imgs[a].hash # imgs[b].hash

\* the bytes of the j-th image of the page in progress (from 0)
BytesAt(j) == extract_image(page_images[j + 1]).image

\* the j-th image passed extraction, decoding, validation and saving
Acceptable(j) ==
    /\ image_faults[j + 1] = "none"
    /\ ~rejected(BytesAt(j), extract_image(page_images[j + 1]))

\* C4: the hashes of a page's image records are pairwise distinct, and the
\* images of identical bytes contribute one record: the first acceptable one.
C4_OneRecordPerContent ==
    /\ UniqueHashes(images)
    /\ \A p \in PageRecords : UniqueHashes(p.images)
    /\ pc = "images" =>
          \A j \in 0..(img_idx - 1) :
              Acceptable(j) =>
                  LET same == {a \in 1..Len(images) : images[a].hash = md5(BytesAt(j))}
                      first == CHOOSE f \in 0..j :
                                  /\ Acceptable(f) /\ BytesAt(f) = BytesAt(j)
                                  /\ \A g \in 0..(f - 1) :
                                         ~(Acceptable(g) /\ BytesAt(g) = BytesAt(j))
                  IN  /\ Cardinality(same) = 1
                      /\ \A a \in same : images[a].index = first

\* two acceptable images of identical bytes, one record
C4_Witness ==
    /\ pc = "images"
    /\ img_idx = 2
    /\ Acceptable(0) /\ Acceptable(1)
    /\ BytesAt(0) = BytesAt(1)
    /\ Len(images) = 1

\* p comes before q in the lexicographic order of the component lists
LexLess(p, q) ==
    \/ Len(p) < Len(q) /\ SubSeq(q, 1, Len(p)) = p
    \/ \E i \in 1..Len(p) :
          /\ i <= Len(q)
          /\ SubSeq(p, 1, i - 1) = SubSeq(q, 1, i - 1)
          /\ p[i] < q[i]

\* C5: the paths are sorted lexicographically and numbered 1..N in that
\* order, the result is in ascending ordinal order, and the ordinal of a path
\* depends on the set of paths alone, not on the enumeration order.
C5_OrdinalsFollowSortedPaths ==
    pc # "start" =>
       /\ Range(document_paths) = Range(all_files)
       /\ Len(document_paths) = Len(all_files)
       /\ \A i, j \in 1..Len(document_paths) :
              i < j => LexLess(document_paths[i], document_paths[j])
       /\ \A k \in 1..Len(processed_documents) :
              LET d == processed_documents[k]
              IN  /\ d.metadata.document_number = k
                  /\ d.file_path = document_paths[k]
                  /\ k = 1 + Cardinality({q \in Range(all_files) : LexLess(q, d.file_path)})
       /\ pc = "done" => Len(processed_documents) = Len(all_files)

\* the enumeration came out in descending order: <<3>> ("b.pdf") before <<1>> ("a.pdf")
C5_Witness ==
    /\ pc = "done"
    /\ all_files = << <<3>>, <<1>> >>
    /\ processed_documents[1].file_path = <<1>>
    /\ processed_documents[1].metadata.document_number = 1
    /\ processed_documents[2].file_path = <<3>>
    /\ processed_documents[2].metadata.document_number = 2

\* C6: no returned DocumentContent leaves the handle of its document open.
C6_HandleClosedOnReturn ==
    \A k \in 1..Len(processed_documents) : handle[k].state # "open"

\* C7 as stated: a document that opened carries the five metadata entries,
\* whether or not a page failed.
C7_MetadataWheneverOpened ==
    \A k \in 1..Len(processed_documents) :
        handle[k].state # "unopened" =>
            DOMAIN processed_documents[k].metadata = FullKeys

\* C7 amended: a document that opened and whose pages and metadata lookup all
\* succeeded (no error) carries title, author, creation timestamp, page
\* count and ordinal; a document with a failed page carries the ordinal alone.
C7_MetadataIffNoError ==
    \A k \in 1..Len(processed_documents) :
        LET d == processed_documents[k]
            h == handle[k]
        IN  /\ d.error = None =>
                 /\ h.state = "closed"
                 /\ DOMAIN d.metadata = FullKeys
                 /\ d.metadata.title =
                        (IF "title" \in DOMAIN h.metadata THEN h.metadata.title ELSE "")
                 /\ d.metadata.author =
                        (IF "author" \in DOMAIN h.metadata THEN h.metadata.author ELSE "")
                 /\ d.metadata.creation_date =
                        (IF "creationDate" \in DOMAIN h.metadata
                         THEN h.metadata.creationDate ELSE "")
                 /\ d.metadata.page_count = h.page_count
                 /\ d.metadata.page_count = Len(d.pages)
                 /\ d.metadata.document_number = k
            /\ d.error # None =>
                 /\ DOMAIN d.metadata = {"document_number"}
                 /\ d.metadata.document_number = k

\* one document returned with its pages, one opened and failed on a page
C7_Witness ==
    /\ Len(processed_documents) = 2
    /\ processed_documents[1].error = None
    /\ processed_documents[1].pages # <<>>
    /\ handle[2].state = "open"
    /\ processed_documents[2].error = <<"get_text failed">>

\* C8 as stated: segment i is the last chunk_overlap characters of OUTPUT
\* segment i-1 followed by wrap segment i; a single segment is left alone.
C8_CascadingOverlap ==
    cpc = "returned" =>
       /\ Len(overlapped_chunks) = Len(chunks)
       /\ Len(chunks) >= 1 => overlapped_chunks[1] = chunks[1]
       /\ \A i \in 2..Len(chunks) :
              overlapped_chunks[i] =
                  LastChars(overlapped_chunks[i - 1], chunk_overlap) \o chunks[i]

\* what chunks[i-1][-chunk_overlap:] takes of a wrap segment: chunk_overlap
\* characters, or all of it when chunk_overlap is 0 or not below its length
TakenFrom(segment) ==
    IF chunk_overlap = 0 \/ chunk_overlap >= Len(segment)
    THEN Len(segment) ELSE chunk_overlap

\* C8 amended: segment i is the tail chunks[i-1][-chunk_overlap:] of the
\* PRE-overlap wrap segment i-1 followed by wrap segment i; a single segment
\* (or none) is left alone.
C8_OverlapFromWrapSegment ==
    cpc = "returned" =>
       /\ Len(overlapped_chunks) = Len(chunks)
       /\ Len(chunks) >= 1 => overlapped_chunks[1] = chunks[1]
       /\ \A i \in 2..Len(chunks) :
              LET prev == chunks[i - 1]
              IN  overlapped_chunks[i] =
                      SubSeq(prev, Len(prev) - TakenFrom(prev) + 1, Len(prev))
                      \o chunks[i]

\* three segments, the middle one shorter than the overlap: the third output
\* segment differs from the cascading one
C8_Witness ==
    /\ cpc = "returned"
    /\ Len(chunks) = 3
    /\ chunk_overlap >= 1
    /\ Len(chunks[2]) < chunk_overlap
    /\ overlapped_chunks[3] = chunks[2] \o chunks[3]
    /\ overlapped_chunks[3] #
           LastChars(overlapped_chunks[2], chunk_overlap) \o chunks[3]

StrictlyIncreasing(ts) ==
    \A a, b \in 1..Len(ts) : a < b => ts[a].index < ts[b].index

\* C9 as stated: the index fields of a page's table records are 0,1,...,n-1.
C9_IndexesDense ==
    pc = "page_return" =>
        \A k \in 1..Len(processed_tables) : processed_tables[k].index = k - 1

\* C9 amended: the records are in extraction order and the index of a record
\* is the position of its table among all the candidates the backend returned
\* for the page, which is also the number in its file name.
C9_IndexIsCandidatePosition ==
    /\ StrictlyIncreasing(processed_tables)
    /\ \A p \in PageRecords : StrictlyIncreasing(p.tables)
    /\ pc = "page_return" =>
          /\ {r.index : r \in Range(processed_tables)} = Saved
          /\ \A r \in Range(processed_tables) :
                 /\ r.index \in 0..(Len(tables) - 1)
                 /\ r.accuracy = tables[r.index + 1].accuracy
                 /\ r.page = page_num
                 /\ r.path = table_path(doc_num, page_num, r.index)

\* the first candidate was rejected, the second accepted with index 1
C9_Witness ==
    /\ pc = "page_return"
    /\ Len(tables) = 2
    /\ tables[1].accuracy <= table_accuracy_threshold
    /\ Len(processed_tables) = 1
    /\ processed_tables[1].index = 1

\* C10: processing an image whose hash was already seen on the page leaves
\* the files under images/ as they were.
C10_DuplicateWritesNothing ==
    [][(/\ pc = "images"
        /\ img_idx < Len(page_images)
        /\ md5(BytesAt(img_idx)) \in seen_hashes) => files' = files]_vars


\* C11: once page.get_text() has returned, process_page does not raise: no
\* step of the image enumeration, of the image loop or of the table
\* extraction returns the document as an error document.
C11_OnlyTextExtractionFailsPage ==
    [][(pc \in {"get_images", "images", "lattice", "page_return"})
          => Len(processed_documents') = Len(processed_documents)]_vars

\* C12: every document the loop has passed has its record, in the position of
\* its ordinal and with its path; a document that could not be opened, or that
\* failed after it was opened, has its error set, and only those; when the
\* loop ends every enumerated file has a record, whichever documents failed.
C12_EveryDocumentAnswered ==
    /\ pc # "start" => Len(processed_documents) = doc_num - 1
    /\ \A k \in 1..Len(processed_documents) :
          /\ processed_documents[k].file_path = document_paths[k]
          /\ handle[k].state = "closed" <=> processed_documents[k].error = None
    /\ pc \in {"done", "text_prepared", "finished"} =>
          {processed_documents[k].file_path : k \in 1..Len(processed_documents)}
              = Range(all_files)

\* the first document failed and the second was processed with its pages
C12_Witness ==
    /\ pc = "done"
    /\ Len(processed_documents) = 2
    /\ processed_documents[1].error # None
    /\ processed_documents[2].error = None
    /\ processed_documents[2].pages # <<>>

\* C17: when the last call of the table backend failed (the stream call with
\* a message that is not fatal, or the lattice call after a fatal one),
\* _extract_tables returns the empty list; and no step of the table
\* extraction leaves the page: the document list stays as it was.
C17_TableFailureYieldsNoTables ==
    /\ [](pc = "page_return" /\ camelot_calls[Len(camelot_calls)].error # None
              => processed_tables = <<>>)
    /\ [][(pc = "lattice" \/ (pc = "images" /\ img_idx = Len(page_images)))
              => /\ pc' \in {"lattice", "page_return"}
                 /\ processed_documents' = processed_documents]_vars

\* the stream call failed fatally and the lattice call failed too
C17_Witness ==
    /\ pc = "page_return"
    /\ Len(camelot_calls) = 2
    /\ camelot_calls[1].error # None
    /\ camelot_calls[2].error # None
    /\ processed_tables = <<>>

\* C18: every image of the page is processed, whatever failed before it: an
\* iteration of the image loop always goes on to the next image and keeps
\* the records made so far; the first acceptable image of each content has
\* its record, and the records are in enumeration order.
C18_FaultyImageSkipped ==
    /\ [](pc = "images" =>
             /\ Len(image_faults) = img_idx
             /\ StrictlyIncreasing(images)
             /\ \A j \in 0..(img_idx - 1) :
                   (/\ Acceptable(j)
                    /\ \A g \in 0..(j - 1) :
                          ~(Acceptable(g) /\ BytesAt(g) = BytesAt(j)))
                   => \E a \in 1..Len(images) : images[a].index = j)
    /\ [][(pc = "images" /\ img_idx < Len(page_images))
              => /\ pc' = "images"
                 /\ img_idx' = img_idx + 1
                 /\ processed_documents' = processed_documents
                 /\ SubSeq(images', 1, Len(images)) = images]_vars

\* the first image failed and the second has its record
C18_Witness ==
    /\ pc = "images"
    /\ img_idx = 2
    /\ image_faults[1] # "none"
    /\ Acceptable(1)
    /\ Len(images) = 1
    /\ images[1].index = 1

\* C20: a returned document without error has one page record per page of
\* the document, and the page_number of the i-th is i (from 0); the step on
\* which a page fails returns the error document and goes to the next
\* document: no page, image or table of the failed document is met after it.
C20_PagesAscendingNoGaps ==
    /\ [](\A k \in 1..Len(processed_documents) :
             LET d == processed_documents[k]
             IN  d.error = None =>
                    /\ Len(d.pages) = handle[k].page_count
                    /\ \A i \in 1..Len(d.pages) : d.pages[i].page_number = i - 1)
    /\ [][(/\ pc \in {"page", "get_images"}
           /\ Len(processed_documents') > Len(processed_documents)
           /\ processed_documents'[Len(processed_documents')].error # None)
              => /\ pc' = "document"
                 /\ doc_num' = doc_num + 1
                 /\ files' = files
                 /\ n_items' = n_items]_vars

\* a document of one page returned whole, then a document of two pages that
\* failed on a page
C20_Witness ==
    /\ Len(processed_documents) = 2
    /\ processed_documents[1].error = None
    /\ Len(processed_documents[1].pages) = 1
    /\ processed_documents[1].pages[1].page_number = 0
    /\ handle[2].page_count = 2
    /\ processed_documents[2].error = <<"get_text failed">>


\* C14 as stated: a text shorter than chunk_size comes back as one segment,
\* the text itself.
C14_ShortTextUnchanged ==
    (cpc = "returned" /\ Len(text) < chunk_size) => overlapped_chunks = <<text>>

\* the text with every whitespace character turned into a blank and the
\* blanks at its end removed
Blanked(t) == [i \in 1..Len(t) |-> IF t[i] \in whitespace THEN " " ELSE t[i]]

WithoutTrailingBlanks(t) ==
    SubSeq(t, 1, IF \A i \in 1..Len(t) : t[i] = " " THEN 0
                 ELSE CHOOSE n \in 1..Len(t) :
                          /\ t[n] # " "
                          /\ \A i \in (n + 1)..Len(t) : t[i] = " ")

\* C14: a text shorter than chunk_size comes back as no segment when it is
\* empty or all whitespace, and otherwise as one segment: the text with its
\* whitespace characters turned into blanks and its trailing whitespace
\* removed, leading and inner blanks kept.
C14_ShortTextOneLineStripped ==
    (cpc = "returned" /\ Len(text) < chunk_size) =>
        LET line == WithoutTrailingBlanks(Blanked(text))
        IN  overlapped_chunks = IF line = <<>> THEN <<>> ELSE <<line>>

\* a short text with a leading blank and a trailing newline
C14_Witness ==
    /\ cpc = "returned"
    /\ chunk_size = 3
    /\ text = <<" ", "\n">> \/ text = <<"a", "\n">>
    /\ Len(overlapped_chunks) <= 1
    /\ overlapped_chunks # <<text>>

\* the words of a text: its maximal runs of characters that are not whitespace
Words(t) == SelectSeq(split(Blanked(t)), LAMBDA c : ~IsBlank(c))

\* the words of the wrap segments, in order
SegmentWords == concat([i \in 1..Len(chunks) |-> Words(chunks[i])])

RECURSIVE CutsOnlyLongWords(_, _, _)
CutsOnlyLongWords(ws, vs, size) ==
    IF ws = <<>> THEN vs = <<>>
    ELSE /\ vs # <<>>
         /\ IF Len(Head(ws)) <= size
            THEN /\ Head(vs) = Head(ws)
                 /\ CutsOnlyLongWords(Tail(ws), Tail(vs), size)
            ELSE /\ Len(Head(vs)) \in 1..size
                 /\ SubSeq(Head(ws), 1, Len(Head(vs))) = Head(vs)
                 /\ CutsOnlyLongWords(
                        <<SubSeq(Head(ws), Len(Head(vs)) + 1, Len(Head(ws)))>>
                            \o Tail(ws),
                        Tail(vs), size)

C19_PrefixIsLastOverlapChars ==
    cpc = "returned" =>
        /\ Len(overlapped_chunks) = Len(chunks)
        /\ \A i \in 2..Len(chunks) :
              overlapped_chunks[i] =
                  LastChars(chunks[i - 1], chunk_overlap) \o chunks[i]


\* whether the preprocessor wrote its chunks to files
OutputDirSet == \E i \in 1..Len(text_chunks) : "file_path" \in DOMAIN text_chunks[i]

\* the chunk records and the image records of a set of documents
ExpectedChunks(docs) ==
    UNION {Range(doc_chunks(d, chunk_size, chunk_overlap, OutputDirSet)) : d \in docs}

ExpectedImages(docs) == UNION {Range(doc_images_data(d)) : d \in docs}

\* a comes before b by document ordinal, then page, then index
Before(a, b, index) ==
    \/ a.metadata.document_number < b.metadata.document_number
    \/ /\ a.metadata.document_number = b.metadata.document_number
       /\ \/ a.page_number < b.page_number
          \/ a.page_number = b.page_number /\ a[index] < b[index]

\* C13: the output of prepare_for_text_embedding, and of
\* prepare_for_image_processing, is fixed by the SET of the documents given:
\* it holds the records of these documents, each once, in ascending order of
\* document ordinal, then page, then chunk (or image) index; so every order
\* of the same documents gives the same output.
C13_OutputIndependentOfInputOrder ==
    /\ pc \in {"text_prepared", "finished"} =>
          /\ Range(text_chunks) = ExpectedChunks(Range(processed_documents))
          /\ \A i, j \in 1..Len(text_chunks) :
                i < j => Before(text_chunks[i], text_chunks[j], "chunk_index")
    /\ pc = "finished" =>
          /\ Range(image_data) = ExpectedImages(Range(processed_documents))
          /\ \A i, j \in 1..Len(image_data) :
                i < j => Before(image_data[i], image_data[j], "image_index")

\* document 2 was given before document 1, and the chunks and images of
\* document 1 come first
C13_Witness ==
    /\ pc = "finished"
    /\ Len(processed_documents) = 2
    /\ processed_documents[1].metadata.document_number = 2
    /\ processed_documents[2].metadata.document_number = 1
    /\ Len(text_chunks) >= 4
    /\ text_chunks[1].metadata.document_number = 1
    /\ text_chunks[Len(text_chunks)].metadata.document_number = 2
    /\ Len(image_data) >= 2
    /\ image_data[1].metadata.document_number = 1
    /\ image_data[Len(image_data)].metadata.document_number = 2

\* C16: no path is written while it is already there from an earlier write of
\* the run (images, tables of either flavor, chunk files), and the chunk files
\* of distinct chunk records are distinct.
C16_NoPathWrittenTwice ==
    /\ rewritten = {}
    /\ \A i, j \in 1..Len(text_chunks) :
          (i # j /\ OutputDirSet) => text_chunks[i].file_path # text_chunks[j].file_path

\* a run that wrote an image, a table and chunk files
C16_Witness ==
    /\ pc = "finished"
    /\ \E f \in files : f[1] = "images"
    /\ \E f \in files : f[1] = "tables"
    /\ \E f \in files : f[1] = "text"
    /\ Len(text_chunks) >= 2

====
